---- MODULE Spec2Model ----
(***************************************************************************)
(* A model of ocl's Kernel (src/src/standard/kernel.rs): one Kernel        *)
(* handle, the foreign driver it talks to, and one caller that constructs  *)
(* the handle and then uses its public methods in any order.               *)
(*                                                                         *)
(* The foreign driver is a black box: every foreign call returns a status  *)
(* chosen nondeterministically (0 is success).  The calls the handle       *)
(* issues are recorded in set_calls and enq_calls.  A Rust panic ends the  *)
(* caller: pc = "panicked" has no successor.                               *)
(***************************************************************************)
EXTENDS Integers, Sequences, FiniteSets, TLC

\* ------------------------------------------------------------------ bounds
MaxArgs == 2          \* successful argument-adding calls
MaxSets == 1          \* set_arg_*_named calls that reach the driver
MaxEnqueues == 2      \* foreign enqueue calls, dispatch side
MaxBindEnqueues == 1  \* foreign enqueue calls, argument-binding side
MaxDim == 2           \* largest small component of a WorkDims value

\* ------------------------------------------------------------ input domains
Names == {"x", "y"}
NewScalars == {5}               \* scalars given when an argument is added
SetScalars == {7}               \* scalars given when a named one is set
Buffers == {1}
LocalLens == {8}
Queues == {1, 2}
Events == {1}
ForeignStatus == {0, -5}        \* CL_SUCCESS and one failure status
Unnamed == ""

\* Option<T> is the empty set (None) or a singleton (Some(v)).
None == {}
Some(v) == {v}
unwrap(opt) == CHOOSE v \in opt : TRUE
Opt(S) == {None} \cup {Some(v) : v \in S}

\* -------------------------------------------------------------- WorkDims
Unspecified == [tag |-> "Unspecified", v |-> <<>>]
One(x) == [tag |-> "One", v |-> <<x>>]
Two(x, y) == [tag |-> "Two", v |-> <<x, y>>]
Three(x, y, z) == [tag |-> "Three", v |-> <<x, y, z>>]

dim_count(d) ==
    CASE d.tag = "Unspecified" -> 0
      [] d.tag = "One" -> 1
      [] d.tag = "Two" -> 2
      [] d.tag = "Three" -> 3

as_raw(d) ==
    CASE d.tag = "Unspecified" -> None
      [] d.tag = "One" -> Some(<<d.v[1], 1, 1>>)
      [] d.tag = "Two" -> Some(<<d.v[1], d.v[2], 1>>)
      [] d.tag = "Three" -> Some(<<d.v[1], d.v[2], d.v[3]>>)

WorkDimsIn == {Unspecified, One(4), Two(4, 2), Three(4, 4, 4)}

\* Every WorkDims value over the components 0..MaxDim and 20.
DimVals == (0..MaxDim) \cup {20}
WorkDimsAll ==
    {Unspecified} \cup {One(x) : x \in DimVals}
                  \cup {Two(x, y) : x \in DimVals, y \in DimVals}
                  \cup {Three(x, y, z) : x \in DimVals, y \in DimVals, z \in DimVals}

\* -------------------------------------------------------------- KernelArg
Scalar(s) == [kind |-> "Scalar", v |-> s]
Mem(b) == [kind |-> "Mem", v |-> b]
MemNull == [kind |-> "MemNull", v |-> 0]
Local(len) == [kind |-> "Local", v |-> len]

\* ------------------------------------------------------------------ errors
NoErr == [kind |-> "None", name |-> Unnamed, status |-> 0]
ApiErr(st) == [kind |-> "Api", name |-> Unnamed, status |-> st]
InvalidArgName(n) == [kind |-> "InvalidArgName", name |-> n, status |-> 0]
DimensionsUnspecified == [kind |-> "DimensionsUnspecified", name |-> Unnamed, status |-> 0]

VARIABLES
    pc,             \* "start", "live", "failed" (no handle), "panicked"
    arg_index,      \* Kernel.arg_index
    named_args,     \* Kernel.named_args: name -> index
    arg_count,      \* Kernel.arg_count
    command_queue,  \* Kernel.command_queue
    gwo, gws, lws,  \* Kernel.gwo, Kernel.gws, Kernel.lws
    drv_args,       \* driver side: index -> the argument value last set there
    set_calls,      \* foreign set_kernel_arg calls, in order
    enq_calls,      \* foreign enqueue_kernel calls, in order
    ctor,           \* the inputs Kernel::new was given
    call,           \* the caller's last invocation: method and inputs
    ret             \* what that invocation gave back

handle == <<arg_index, named_args, arg_count, command_queue, gwo, gws, lws>>
driver == <<drv_args, set_calls, enq_calls>>
vars == <<pc, arg_index, named_args, arg_count, command_queue, gwo, gws, lws,
          drv_args, set_calls, enq_calls, ctor, call, ret>>

Call(op, name, val, dims, wait, dest) ==
    [op |-> op, name |-> name, val |-> val, dims |-> dims, wait |-> wait, dest |-> dest]
Ret(res, err, idx) == [res |-> res, err |-> err, idx |-> idx]
Ok == Ret("Ok", NoErr, -1)
Err(e) == Ret("Err", e, -1)
Panic(e) == Ret("Panic", e, -1)
\* Ok(v) of a method that hands back a value.
OkVal(v) == [res |-> "Ok", err |-> NoErr, idx |-> -1, val |-> v]

\* to_len that adds the components up.
to_len_sums(d) ==
    CASE d.tag = "Unspecified" -> Err(DimensionsUnspecified)
      [] d.tag = "One" -> OkVal(d.v[1])
      [] d.tag = "Two" -> OkVal(d.v[1] + d.v[2])
      [] d.tag = "Three" -> OkVal(d.v[1] + d.v[2] + d.v[3])

\* WorkDims::to_len: the product of the populated dimensions.
to_len(d) ==
    CASE d.tag = "Unspecified" -> Err(DimensionsUnspecified)
      [] d.tag = "One" -> OkVal(d.v[1])
      [] d.tag = "Two" -> OkVal(d.v[1] * d.v[2])
      [] d.tag = "Three" -> OkVal(d.v[1] * d.v[2] * d.v[3])

\* to_size that refuses a value with a zero component.
to_size_rejects_zero(d) ==
    IF d.tag = "Unspecified" \/ \E i \in DOMAIN d.v : d.v[i] = 0
      THEN Err(DimensionsUnspecified)
      ELSE OkVal(unwrap(as_raw(d)))

\* WorkDims::to_size: the populated dimensions as a list of three, the
\* others 1 as in as_raw.
to_size(d) ==
    CASE d.tag = "Unspecified" -> Err(DimensionsUnspecified)
      [] d.tag = "One" -> OkVal(<<d.v[1], 1, 1>>)
      [] d.tag = "Two" -> OkVal(<<d.v[1], d.v[2], 1>>)
      [] d.tag = "Three" -> OkVal(<<d.v[1], d.v[2], d.v[3]>>)

Init ==
    /\ pc = "start"
    /\ arg_index = 0
    /\ named_args = <<>>
    /\ arg_count = 0
    /\ command_queue = 0
    /\ gwo = Unspecified
    /\ gws = Unspecified
    /\ lws = Unspecified
    /\ drv_args = <<>>
    /\ set_calls = <<>>
    /\ enq_calls = <<>>
    /\ ctor = [queue |-> 0, gws |-> Unspecified]
    /\ call = Call("none", Unnamed, None, Unspecified, None, None)
    /\ ret = Ok

\* Kernel::new that leaves the global size out of the handle.
Kernel_new_drops_gws(queue, gws_in, st) ==
    /\ pc = "start"
    /\ call' = Call("new", Unnamed, Some(queue), gws_in, None, None)
    /\ ctor' = [queue |-> queue, gws |-> gws_in]
    /\ pc' = IF st # 0 THEN "failed" ELSE "live"
    /\ ret' = IF st # 0 THEN Err(ApiErr(st)) ELSE Ok
    /\ command_queue' = IF st # 0 THEN command_queue ELSE queue
    /\ UNCHANGED <<arg_index, named_args, arg_count, gwo, gws, lws, driver>>

\* Kernel::new that reports a failed create_kernel and hands out a handle
\* all the same.
Kernel_new_keeps_handle(queue, gws_in, st) ==
    /\ pc = "start"
    /\ call' = Call("new", Unnamed, Some(queue), gws_in, None, None)
    /\ ctor' = [queue |-> queue, gws |-> gws_in]
    /\ pc' = "live"
    /\ ret' = IF st # 0 THEN Err(ApiErr(st)) ELSE Ok
    /\ arg_index' = 0
    /\ named_args' = <<>>
    /\ arg_count' = 0
    /\ command_queue' = queue
    /\ gwo' = Unspecified
    /\ gws' = gws_in
    /\ lws' = Unspecified
    /\ UNCHANGED driver

\* Kernel::new: raw::create_kernel may fail, and then there is no handle.
Kernel_new(queue, gws_in, st) ==
    /\ pc = "start"
    /\ call' = Call("new", Unnamed, Some(queue), gws_in, None, None)
    /\ ctor' = [queue |-> queue, gws |-> gws_in]
    /\ IF st # 0
         THEN /\ pc' = "failed"
              /\ ret' = Err(ApiErr(st))
              /\ UNCHANGED handle
         ELSE /\ pc' = "live"
              /\ ret' = Ok
              /\ arg_index' = 0
              /\ named_args' = <<>>
              /\ arg_count' = 0
              /\ command_queue' = queue
              /\ gwo' = Unspecified
              /\ gws' = gws_in
              /\ lws' = Unspecified
    /\ UNCHANGED driver

\* The operations that add an argument, and those that set a named one.
AddOps == {"arg_buf", "arg_scl", "arg_loc", "arg_scl_named", "arg_buf_named"}
SetOps == {"set_arg_scl_named", "set_arg_buf_named"}

\* One foreign raw::set_kernel_arg call, as the driver sees it; op and name
\* tell which method of the handle issued it.
SetCall(op, name, idx, arg, st) ==
    [op |-> op, name |-> name, idx |-> idx, arg |-> arg, status |-> st]

\* The driver keeps the value of a successful call and ignores a failed one.
drv_set(idx, arg, st) == IF st = 0 THEN (idx :> arg) @@ drv_args ELSE drv_args

NSets == Cardinality({i \in DOMAIN set_calls : set_calls[i].op \in SetOps})

\* new_arg without its increment: every argument lands on the same index.
new_arg_no_increment(arg, st) ==
    /\ set_calls' = Append(set_calls, SetCall(call'.op, call'.name, arg_index, arg, st))
    /\ drv_args' = drv_set(arg_index, arg, st)
    /\ arg_index' = arg_index
    /\ ret' = IF st = 0 THEN Ret("Ok", NoErr, arg_index) ELSE Panic(ApiErr(st))
    /\ pc' = IF st = 0 THEN "live" ELSE "panicked"

\* Kernel::new_arg: the foreign call at arg_index, unwrap(), then the
\* increment.  st is the driver's answer; ret'.idx is the index returned.
\* arg_index is a u32; the callers' guard arg_index < MaxArgs keeps it far
\* from wrapping.
new_arg(arg, st) ==
    LET arg_idx == arg_index IN
    /\ set_calls' = Append(set_calls, SetCall(call'.op, call'.name, arg_idx, arg, st))
    /\ drv_args' = drv_set(arg_idx, arg, st)
    /\ IF st = 0
         THEN /\ arg_index' = arg_index + 1
              /\ ret' = Ret("Ok", NoErr, arg_idx)
              /\ pc' = "live"
         ELSE /\ arg_index' = arg_index
              /\ ret' = Panic(ApiErr(st))
              /\ pc' = "panicked"

\* Kernel::new_arg_buf
new_arg_buf(buffer_opt, st) ==
    IF buffer_opt # None
      THEN new_arg(Mem(unwrap(buffer_opt)), st)
      ELSE new_arg(MemNull, st)

\* new_arg_scl whose placeholder for None is one.
new_arg_scl_placeholder_one(scalar_opt, st) ==
    LET scalar == IF scalar_opt # None THEN unwrap(scalar_opt) ELSE 1 IN
    new_arg(Scalar(scalar), st)

\* Kernel::new_arg_scl: None is Default::default(), zero.
new_arg_scl(scalar_opt, st) ==
    LET scalar == IF scalar_opt # None THEN unwrap(scalar_opt) ELSE 0 IN
    new_arg(Scalar(scalar), st)

\* Kernel::new_arg_loc
new_arg_loc(length, st) == new_arg(Local(length), st)

\* Kernel::arg_buf
Kernel_arg_buf(buffer, st) ==
    /\ pc = "live" /\ arg_index < MaxArgs
    /\ call' = Call("arg_buf", Unnamed, Some(buffer), Unspecified, None, None)
    /\ new_arg_buf(Some(buffer), st)
    /\ UNCHANGED <<named_args, arg_count, command_queue, gwo, gws, lws, enq_calls, ctor>>

\* Kernel::arg_scl
Kernel_arg_scl(scalar, st) ==
    /\ pc = "live" /\ arg_index < MaxArgs
    /\ call' = Call("arg_scl", Unnamed, Some(scalar), Unspecified, None, None)
    /\ new_arg_scl(Some(scalar), st)
    /\ UNCHANGED <<named_args, arg_count, command_queue, gwo, gws, lws, enq_calls, ctor>>

\* Kernel::arg_loc
Kernel_arg_loc(length, st) ==
    /\ pc = "live" /\ arg_index < MaxArgs
    /\ call' = Call("arg_loc", Unnamed, Some(length), Unspecified, None, None)
    /\ new_arg_loc(length, st)
    /\ UNCHANGED <<named_args, arg_count, command_queue, gwo, gws, lws, enq_calls, ctor>>

\* insert that registers every name against the first slot.
insert_named_first_slot(name) ==
    named_args' = IF ret'.res = "Ok" THEN (name :> 0) @@ named_args
                                      ELSE named_args

\* insert that keeps the index of a name that is already registered.
insert_named_keep_first(name) ==
    named_args' = IF ret'.res = "Ok" /\ name \notin DOMAIN named_args
                    THEN (name :> ret'.idx) @@ named_args
                    ELSE named_args

\* insert that registers the name against the counter after its increment.
insert_named_next_slot(name) ==
    named_args' = IF ret'.res = "Ok" THEN (name :> arg_index') @@ named_args
                                      ELSE named_args

\* named_args.insert(name, arg_idx); not reached when new_arg panicked.
insert_named(name) ==
    named_args' = IF ret'.res = "Ok" THEN (name :> ret'.idx) @@ named_args
                                      ELSE named_args

\* Kernel::arg_scl_named
Kernel_arg_scl_named(name, scalar_opt, st) ==
    /\ pc = "live" /\ arg_index < MaxArgs
    /\ call' = Call("arg_scl_named", name, scalar_opt, Unspecified, None, None)
    /\ new_arg_scl(scalar_opt, st)
    /\ insert_named(name)
    /\ UNCHANGED <<arg_count, command_queue, gwo, gws, lws, enq_calls, ctor>>

\* Kernel::arg_buf_named
Kernel_arg_buf_named(name, buffer_opt, st) ==
    /\ pc = "live" /\ arg_index < MaxArgs
    /\ call' = Call("arg_buf_named", name, buffer_opt, Unspecified, None, None)
    /\ new_arg_buf(buffer_opt, st)
    /\ insert_named(name)
    /\ UNCHANGED <<arg_count, command_queue, gwo, gws, lws, enq_calls, ctor>>

\* gwo that stores the offset before it compares the dimension counts.
Kernel_gwo_stores_first(d) ==
    /\ pc = "live"
    /\ call' = Call("gwo", Unnamed, None, d, None, None)
    /\ gwo' = d
    /\ ret' = IF dim_count(d) = dim_count(gws) THEN Ok ELSE Panic(NoErr)
    /\ pc' = IF dim_count(d) = dim_count(gws) THEN "live" ELSE "panicked"
    /\ UNCHANGED <<arg_index, named_args, arg_count, command_queue, gws, lws, driver, ctor>>

\* Kernel::gwo: a dimension count other than gws's panics.
Kernel_gwo(d) ==
    /\ pc = "live"
    /\ call' = Call("gwo", Unnamed, None, d, None, None)
    /\ IF dim_count(d) = dim_count(gws)
         THEN /\ gwo' = d
              /\ ret' = Ok
              /\ pc' = "live"
         ELSE /\ gwo' = gwo
              /\ ret' = Panic(NoErr)
              /\ pc' = "panicked"
    /\ UNCHANGED <<arg_index, named_args, arg_count, command_queue, gws, lws, driver, ctor>>

\* lws that writes the accepted local size into the offset field.
Kernel_lws_stores_in_gwo(d) ==
    /\ pc = "live"
    /\ call' = Call("lws", Unnamed, None, d, None, None)
    /\ IF dim_count(d) = dim_count(gws)
         THEN /\ gwo' = d
              /\ ret' = Ok
              /\ pc' = "live"
         ELSE /\ gwo' = gwo
              /\ ret' = Panic(NoErr)
              /\ pc' = "panicked"
    /\ UNCHANGED <<arg_index, named_args, arg_count, command_queue, lws, gws, driver, ctor>>

\* Kernel::lws: a dimension count other than gws's panics.
Kernel_lws(d) ==
    /\ pc = "live"
    /\ call' = Call("lws", Unnamed, None, d, None, None)
    /\ IF dim_count(d) = dim_count(gws)
         THEN /\ lws' = d
              /\ ret' = Ok
              /\ pc' = "live"
         ELSE /\ lws' = lws
              /\ ret' = Panic(NoErr)
              /\ pc' = "panicked"
    /\ UNCHANGED <<arg_index, named_args, arg_count, command_queue, gwo, gws, driver, ctor>>

\* resolve_named_arg_idx that falls back to the first argument.
resolve_or_first(name) ==
    IF name \in DOMAIN named_args
      THEN Ret("Ok", NoErr, named_args[name])
      ELSE Ret("Ok", NoErr, 0)

\* Kernel::resolve_named_arg_idx
resolve_named_arg_idx(name) ==
    IF name \in DOMAIN named_args
      THEN Ret("Ok", NoErr, named_args[name])
      ELSE Err(InvalidArgName(name))

\* set_arg that ignores arg_idx and sets the argument added last.
set_arg_last_added(arg_idx, arg, st) ==
    /\ set_calls' = Append(set_calls, SetCall(call'.op, call'.name, arg_index - 1, arg, st))
    /\ drv_args' = drv_set(arg_index - 1, arg, st)
    /\ ret' = IF st = 0 THEN Ok ELSE Err(ApiErr(st))

\* set_arg that issues its foreign call twice.
set_arg_twice(arg_idx, arg, st) ==
    /\ set_calls' = set_calls \o <<SetCall(call'.op, call'.name, arg_idx, arg, st),
                                   SetCall(call'.op, call'.name, arg_idx, arg, st)>>
    /\ drv_args' = drv_set(arg_idx, arg, st)
    /\ ret' = IF st = 0 THEN Ok ELSE Err(ApiErr(st))

\* Kernel::set_arg: the foreign call at arg_idx, its result handed back.
set_arg(arg_idx, arg, st) ==
    /\ set_calls' = Append(set_calls, SetCall(call'.op, call'.name, arg_idx, arg, st))
    /\ drv_args' = drv_set(arg_idx, arg, st)
    /\ ret' = IF st = 0 THEN Ok ELSE Err(ApiErr(st))

\* Kernel::set_arg_scl_named
Kernel_set_arg_scl_named(name, scalar, st) ==
    /\ pc = "live" /\ NSets < MaxSets
    /\ call' = Call("set_arg_scl_named", name, Some(scalar), Unspecified, None, None)
    /\ LET r == resolve_named_arg_idx(name) IN
         IF r.res = "Err"
           THEN /\ ret' = r
                /\ UNCHANGED <<drv_args, set_calls>>
           ELSE set_arg(r.idx, Scalar(scalar), st)
    /\ UNCHANGED <<pc, handle, enq_calls, ctor>>

\* Kernel::set_arg_buf_named
Kernel_set_arg_buf_named(name, buffer_opt, st) ==
    /\ pc = "live" /\ NSets < MaxSets
    /\ call' = Call("set_arg_buf_named", name, buffer_opt, Unspecified, None, None)
    /\ LET r == resolve_named_arg_idx(name) IN
         IF r.res = "Err"
           THEN /\ ret' = r
                /\ UNCHANGED <<drv_args, set_calls>>
           ELSE IF buffer_opt # None
                  THEN set_arg(r.idx, Mem(unwrap(buffer_opt)), st)
                  ELSE set_arg(r.idx, MemNull, st)
    /\ UNCHANGED <<pc, handle, enq_calls, ctor>>

\* enqueue with offset and local size passed in each other's place.
Kernel_enqueue_swapped(wait_list, dest_list, st) ==
    /\ pc = "live"
    /\ call' = Call("enqueue", Unnamed, None, Unspecified, wait_list, dest_list)
    /\ IF as_raw(gws) = None
         THEN /\ enq_calls' = enq_calls
              /\ ret' = Panic(NoErr)
              /\ pc' = "panicked"
         ELSE /\ enq_calls' = Append(enq_calls,
                    [queue |-> command_queue, dims |-> dim_count(gws),
                     offset |-> as_raw(lws), global |-> unwrap(as_raw(gws)),
                     local |-> as_raw(gwo), wait |-> wait_list,
                     dest |-> dest_list, status |-> st])
              /\ ret' = IF st = 0 THEN Ok ELSE Panic(ApiErr(st))
              /\ pc' = IF st = 0 THEN "live" ELSE "panicked"
    /\ UNCHANGED <<handle, drv_args, set_calls, ctor>>

\* enqueue that defaults a missing global size instead of unwrapping it.
Kernel_enqueue_defaulted(wait_list, dest_list, st) ==
    /\ pc = "live"
    /\ call' = Call("enqueue", Unnamed, None, Unspecified, wait_list, dest_list)
    /\ enq_calls' = Append(enq_calls,
          [queue |-> command_queue, dims |-> dim_count(gws),
           offset |-> as_raw(gwo),
           global |-> IF as_raw(gws) = None THEN <<1, 1, 1>> ELSE unwrap(as_raw(gws)),
           local |-> as_raw(lws), wait |-> wait_list,
           dest |-> dest_list, status |-> st])
    /\ ret' = IF st = 0 THEN Ok ELSE Panic(ApiErr(st))
    /\ pc' = IF st = 0 THEN "live" ELSE "panicked"
    /\ UNCHANGED <<handle, drv_args, set_calls, ctor>>

\* One foreign raw::enqueue_kernel call, as the driver sees it.
EnqCall(queue, dims, offset, global, local, wait, dest, st) ==
    [queue |-> queue, dims |-> dims, offset |-> offset, global |-> global,
     local |-> local, wait |-> wait, dest |-> dest, status |-> st]

\* Kernel::enqueue: self.gws.as_raw().unwrap() panics on None while the
\* arguments of the foreign call are evaluated, before the call; the
\* unwrap() of the call's result panics when the driver refuses.
Kernel_enqueue(wait_list, dest_list, st) ==
    /\ pc = "live"
    /\ call' = Call("enqueue", Unnamed, None, Unspecified, wait_list, dest_list)
    /\ IF as_raw(gws) = None
         THEN /\ enq_calls' = enq_calls
              /\ ret' = Panic(NoErr)
              /\ pc' = "panicked"
         ELSE /\ enq_calls' = Append(enq_calls,
                    EnqCall(command_queue, dim_count(gws), as_raw(gwo),
                            unwrap(as_raw(gws)), as_raw(lws),
                            wait_list, dest_list, st))
              /\ ret' = IF st = 0 THEN Ok ELSE Panic(ApiErr(st))
              /\ pc' = IF st = 0 THEN "live" ELSE "panicked"
    /\ UNCHANGED <<handle, drv_args, set_calls, ctor>>

\* Kernel::arg_count: the accessor hands back the field arg_count.
Kernel_arg_count ==
    /\ pc = "live"
    /\ call' = Call("arg_count", Unnamed, None, Unspecified, None, None)
    /\ ret' = Ret("Ok", NoErr, arg_count)
    /\ UNCHANGED <<pc, handle, driver, ctor>>

\* The methods of a WorkDims value d: pure, they touch no handle.
WorkDims_dim_count(d) ==
    /\ call' = Call("dim_count", Unnamed, None, d, None, None)
    /\ ret' = OkVal(dim_count(d))
    /\ UNCHANGED <<pc, handle, driver, ctor>>

WorkDims_to_len(d) ==
    /\ call' = Call("to_len", Unnamed, None, d, None, None)
    /\ ret' = to_len(d)
    /\ UNCHANGED <<pc, handle, driver, ctor>>

WorkDims_to_size(d) ==
    /\ call' = Call("to_size", Unnamed, None, d, None, None)
    /\ ret' = to_size(d)
    /\ UNCHANGED <<pc, handle, driver, ctor>>

\* ---------------------------------------------------------- specifications
\* Spec: the argument-binding side.  Every argument operation; the handle
\* is built on one queue with a 3-D global size and enqueued without event
\* lists.
Next ==
    \/ \E st \in ForeignStatus : Kernel_new(1, Three(4, 4, 4), st)
    \/ \E b \in Buffers, st \in ForeignStatus : Kernel_arg_buf(b, st)
    \/ \E s \in NewScalars, st \in ForeignStatus : Kernel_arg_scl(s, st)
    \/ \E l \in LocalLens, st \in ForeignStatus : Kernel_arg_loc(l, st)
    \/ \E n \in Names, s \in Opt(NewScalars), st \in ForeignStatus :
          Kernel_arg_scl_named(n, s, st)
    \/ \E n \in Names, st \in ForeignStatus : Kernel_arg_buf_named(n, None, st)
    \/ \E n \in Names, s \in SetScalars, st \in ForeignStatus :
          Kernel_set_arg_scl_named(n, s, st)
    \/ \E n \in Names, b \in Opt(Buffers), st \in ForeignStatus :
          Kernel_set_arg_buf_named(n, b, st)
    \/ \E st \in ForeignStatus :
          Len(enq_calls) < MaxBindEnqueues /\ Kernel_enqueue(None, None, st)

Spec == Init /\ [][Next]_vars

\* SpecDispatch: the work-geometry and dispatch side.  Construction, the
\* geometry setters and enqueue with all of their inputs; the arguments are
\* one buffer and one scalar kind.
NextDispatch ==
    \/ \E q \in Queues, d \in WorkDimsIn, st \in ForeignStatus : Kernel_new(q, d, st)
    \/ \E d \in WorkDimsIn : Kernel_gwo(d)
    \/ \E d \in WorkDimsIn : Kernel_lws(d)
    \/ \E b \in Buffers, st \in ForeignStatus : Kernel_arg_buf(b, st)
    \/ \E s \in NewScalars, st \in ForeignStatus : Kernel_arg_scl(s, st)
    \/ \E w \in Opt(Events), d \in Opt(Events), st \in ForeignStatus :
          Len(enq_calls) < MaxEnqueues /\ Kernel_enqueue(w, d, st)

SpecDispatch == Init /\ [][NextDispatch]_vars

\* SpecSlots: every kind of operation on one handle with a 2-D global
\* size: an unnamed and a named way to add an argument, both ways to set a
\* named one, the geometry setters, enqueue and the arg_count accessor.
NextSlots ==
    \/ \E st \in ForeignStatus : Kernel_new(1, Two(4, 2), st)
    \/ \E d \in {One(4), Two(4, 2)} : Kernel_gwo(d)
    \/ \E d \in {One(4), Two(4, 2)} : Kernel_lws(d)
    \/ \E b \in Buffers, st \in ForeignStatus : Kernel_arg_buf(b, st)
    \/ \E n \in Names, st \in ForeignStatus : Kernel_arg_scl_named(n, None, st)
    \/ \E n \in Names, s \in SetScalars, st \in ForeignStatus :
          Kernel_set_arg_scl_named(n, s, st)
    \/ \E n \in Names, st \in ForeignStatus : Kernel_set_arg_buf_named(n, None, st)
    \/ \E st \in ForeignStatus :
          Len(enq_calls) < MaxBindEnqueues /\ Kernel_enqueue(None, None, st)
    \/ Kernel_arg_count

SpecSlots == Init /\ [][NextSlots]_vars

\* SpecWorkDims: the WorkDims methods applied to every value of WorkDimsAll.
NextWorkDims ==
    \/ \E d \in WorkDimsAll : WorkDims_dim_count(d)
    \/ \E d \in WorkDimsAll : WorkDims_to_len(d)
    \/ \E d \in WorkDimsAll : WorkDims_to_size(d)

SpecWorkDims == Init /\ [][NextWorkDims]_vars

\* ------------------------------------------------------------- properties
Last(q) == q[Len(q)]
IsAdd(c) == c.op \in AddOps
IsOkAdd(c) == c.op \in AddOps /\ c.status = 0
\* The foreign calls of the argument-adding operations that succeeded, in order.
OkAdds == SelectSeq(set_calls, IsOkAdd)

\* C1: the k-th successfully added argument (k from 0) was bound by a
\* foreign set-argument call at index k, whichever of the five adding
\* operations added it, and the counter equals the number of arguments
\* added: each successful call raised it by one and used its old value.
C1_AddedInOrder ==
    /\ \A k \in 1..Len(OkAdds) : OkAdds[k].idx = k - 1
    /\ arg_index = Len(OkAdds)

C1_Witness ==
    /\ Len(OkAdds) = 2
    /\ OkAdds[1].op = "arg_loc" /\ OkAdds[1].idx = 0
    /\ OkAdds[2].op = "arg_buf_named" /\ OkAdds[2].idx = 1
    /\ arg_index = 2

NamedAddOps == {"arg_scl_named", "arg_buf_named"}
Max(S) == CHOOSE m \in S : \A x \in S : x <= m
\* Where in the log name n was registered (the successful *_named calls).
RegPositions(n) ==
    {i \in DOMAIN set_calls : /\ set_calls[i].op \in NamedAddOps
                              /\ set_calls[i].name = n
                              /\ set_calls[i].status = 0}
Registered(n) == RegPositions(n) # {}
\* The slot the registration of n allocated (the latest one, if n was
\* registered again).
RegIdx(n) == set_calls[Max(RegPositions(n))].idx
\* The value of the latest call for n, from its registration on, that the
\* driver accepted.
LatestValue(n) ==
    LET from == Max(RegPositions(n))
        ps == {j \in DOMAIN set_calls : /\ j >= from
                                        /\ set_calls[j].name = n
                                        /\ set_calls[j].status = 0}
    IN set_calls[Max(ps)].arg
\* The argument a set_arg_*_named invocation was given.
ArgGiven(c) ==
    IF c.op = "set_arg_scl_named" THEN Scalar(unwrap(c.val))
    ELSE IF c.val = None THEN MemNull ELSE Mem(unwrap(c.val))

C2_SetStep ==
    (call'.op \in SetOps /\ Registered(call'.name)) =>
        \E st \in ForeignStatus :
            set_calls' = Append(set_calls,
                SetCall(call'.op, call'.name, RegIdx(call'.name), ArgGiven(call'), st))
C2_DriverHasLatest ==
    \A n \in Names : Registered(n) =>
        /\ RegIdx(n) \in DOMAIN drv_args
        /\ drv_args[RegIdx(n)] = LatestValue(n)
C2_EnqueueStep == call'.op = "enqueue" => drv_args' = drv_args

\* C2: once a name is registered, every set_arg_scl_named/set_arg_buf_named
\* for it issues exactly one foreign set-argument call, at the index its
\* registration allocated and with the value given; the driver-side value
\* of that slot is the value of the latest call for the name that the driver
\* accepted (the registration's v0, then each set's value), and an enqueue
\* leaves it in place, so the kernel runs with it.
C2_SetHitsRegisteredSlot ==
    []C2_DriverHasLatest /\ [][C2_SetStep /\ C2_EnqueueStep]_vars

C2_Witness ==
    /\ Len(set_calls) = 3
    /\ set_calls[1] = SetCall("arg_scl_named", "x", 0, Scalar(5), 0)
    /\ set_calls[2].op = "arg_buf" /\ set_calls[2].idx = 1
    /\ set_calls[3] = SetCall("set_arg_scl_named", "x", 0, Scalar(7), 0)
    /\ drv_args[0] = Scalar(7)
    /\ call.op = "enqueue" /\ Len(enq_calls) = 1 /\ ret = Ok

\* C3: when the foreign set-argument call of an argument-adding operation
\* fails, the caller gets an error result carrying the foreign status; the
\* operation does not panic.
C3_AddFailureIsReturned ==
    (/\ call.op \in AddOps
     /\ set_calls # <<>>
     /\ Last(set_calls).status # 0) =>
        /\ ret.res = "Err"
        /\ ret.err = ApiErr(Last(set_calls).status)
        /\ pc = "live"

\* The foreign enqueue call the handle's state and the caller's lists ask for.
ExpectedEnqCall(wait, dest, st) ==
    [queue |-> ctor.queue, dims |-> dim_count(gws), offset |-> as_raw(gwo),
     global |-> unwrap(as_raw(gws)), local |-> as_raw(lws),
     wait |-> wait, dest |-> dest, status |-> st]

C4_EnqueueStep ==
    (call'.op = "enqueue" /\ gws # Unspecified) =>
        /\ \E st \in ForeignStatus :
              enq_calls' = Append(enq_calls, ExpectedEnqCall(call'.wait, call'.dest, st))
        /\ gwo = Unspecified => Last(enq_calls').offset = None
        /\ lws = Unspecified => Last(enq_calls').local = None
        /\ (gws = Three(4, 4, 4) /\ gwo = Unspecified /\ lws = Unspecified) =>
              /\ Last(enq_calls').dims = 3
              /\ Last(enq_calls').global = <<4, 4, 4>>

\* C4: every enqueue on a handle whose global size is specified issues
\* exactly one foreign enqueue call: on the queue given at construction,
\* with dims = gws.dim_count(), offset = gwo.as_raw(), global = gws.as_raw(),
\* local = lws.as_raw() (None for an offset or local size never set) and the
\* caller's wait and signal lists as given; global size (4,4,4) with nothing
\* else set gives dims 3, global [4,4,4], local None, offset None.
C4_EnqueueIssuesOneCall == [][C4_EnqueueStep]_vars

C4_Witness ==
    /\ Len(set_calls) = 2
    /\ set_calls[1].op = "arg_buf" /\ set_calls[2].op = "arg_scl"
    /\ arg_index = 2
    /\ enq_calls = <<[queue |-> ctor.queue, dims |-> 3, offset |-> None,
                      global |-> <<4, 4, 4>>, local |-> None,
                      wait |-> None, dest |-> None, status |-> 0]>>
    /\ call.op = "enqueue" /\ ret = Ok

\* C5: when the foreign enqueue call fails, enqueue gives the caller an
\* error result carrying the foreign status, and the failed call is the only
\* one that invocation issued.
C5_EnqueueFailureIsReturned ==
    (/\ call.op = "enqueue"
     /\ enq_calls # <<>>
     /\ Last(enq_calls).status # 0) =>
        /\ ret.res = "Err"
        /\ ret.err = ApiErr(Last(enq_calls).status)

C6_UnknownNameStep ==
    (call'.op \in SetOps /\ call'.name \notin DOMAIN named_args) =>
        /\ ret' = Err(InvalidArgName(call'.name))
        /\ pc' = "live"
        /\ UNCHANGED <<set_calls, drv_args, enq_calls>>
        /\ UNCHANGED <<arg_index, named_args, arg_count, command_queue, gwo, gws, lws>>

\* C6: set_arg_scl_named and set_arg_buf_named with a name that is not
\* registered return the invalid-argument-name error carrying that name,
\* issue no foreign call, change nothing of the handle (counter, name index,
\* work dimensions) and leave it usable.
C6_UnknownNameIsError == [][C6_UnknownNameStep]_vars

C6_Witness ==
    /\ call.op = "set_arg_buf_named" /\ call.name = "y"
    /\ ret = Err(InvalidArgName("y"))
    /\ DOMAIN named_args = {"x"}
    /\ pc = "live"

DimsAgree(d) == d = Unspecified \/ dim_count(d) = dim_count(gws)
C7_MismatchStep ==
    (call'.op \in {"gwo", "lws"} /\ dim_count(call'.dims) # dim_count(gws)) =>
        /\ ret'.res = "Panic"
        /\ pc' = "panicked"
        /\ UNCHANGED <<gwo, gws, lws>>
        /\ UNCHANGED <<set_calls, drv_args, enq_calls>>

\* C7: a gwo or lws whose dim_count differs from the global size's is
\* rejected by the setter itself, with no foreign call and nothing stored;
\* so the stored gwo and lws are each Unspecified or of gws's dim_count.
C7_GeometryAgrees ==
    [](DimsAgree(gwo) /\ DimsAgree(lws)) /\ [][C7_MismatchStep]_vars

C7_Witness ==
    /\ gws = Three(4, 4, 4) /\ gwo = Three(4, 4, 4)
    /\ call.op = "lws" /\ call.dims = One(4)
    /\ lws = Unspecified
    /\ pc = "panicked"

C8_UnspecifiedStep ==
    (call'.op = "enqueue" /\ gws = Unspecified) =>
        /\ ret'.res # "Ok"
        /\ enq_calls' = enq_calls

\* C8: enqueue on a handle whose global size is Unspecified fails without
\* issuing the foreign enqueue call; such a handle's trace holds none.
C8_UnspecifiedNeverEnqueued ==
    [](gws = Unspecified => enq_calls = <<>>) /\ [][C8_UnspecifiedStep]_vars

C8_Witness ==
    /\ ctor.gws = Unspecified /\ gws = Unspecified
    /\ call.op = "enqueue"
    /\ ret.res = "Panic"
    /\ enq_calls = <<>>
    /\ arg_index = 1

Constructed == pc \in {"live", "panicked"}

\* C9 as stated: a constructed handle's global size is never Unspecified,
\* so no enqueue fails for lack of one.
C9_GwsNeverUnspecified ==
    Constructed =>
        /\ gws # Unspecified
        /\ ~(call.op = "enqueue" /\ ret = Panic(NoErr))

C9_DispatchStep ==
    (call'.op = "enqueue" /\ ctor.gws # Unspecified) =>
        Len(enq_calls') = Len(enq_calls) + 1

\* C9, amended: a constructed handle's global size is the one Kernel::new
\* was given, in every state; given a specified one, no enqueue fails for
\* lack of a global size: each reaches the driver, whatever was bound.
C9_GwsIsTheOneGiven ==
    [](Constructed => gws = ctor.gws) /\ [][C9_DispatchStep]_vars

C9_Witness ==
    /\ ctor.gws = One(4) /\ gws = One(4)
    /\ arg_index = 0
    /\ call.op = "enqueue" /\ ret = Ok
    /\ Len(enq_calls) = 2

\* C10: enqueue leaves the handle as it was and the handle callable again,
\* whether its foreign call succeeded or failed.
C10_EnqueueLeavesHandleCallable ==
    [][(call'.op = "enqueue" /\ gws # Unspecified) =>
          /\ UNCHANGED <<arg_index, named_args, arg_count, command_queue, gwo, gws, lws>>
          /\ pc' = "live"]_vars

\* C11: the name index is injective: no two distinct registered names map
\* to the same argument slot index.
C11_NameIndexInjective ==
    \A n1 \in DOMAIN named_args, n2 \in DOMAIN named_args :
        n1 # n2 => named_args[n1] # named_args[n2]

C11_Witness ==
    /\ DOMAIN named_args = {"x", "y"}
    /\ named_args["y"] = 0 /\ named_args["x"] = 1
    /\ set_calls[1].op = "arg_buf_named" /\ set_calls[2].op = "arg_scl_named"

\* The index name n resolved to when the call at position i of the log was
\* issued: the slot of its latest registration before i.
ResolvedAt(n, i) ==
    set_calls[Max({j \in RegPositions(n) : j < i})].idx
\* The value of the latest foreign call at slot s that the driver accepted.
LastAccepted(s) ==
    set_calls[Max({j \in DOMAIN set_calls :
                     set_calls[j].idx = s /\ set_calls[j].status = 0})].arg

\* C12: a name may be registered again and the last registration wins: the
\* name resolves to the slot of its latest registration, which is larger
\* than the slot of any earlier one; every set_arg_*_named call for the
\* name is issued at the slot of the latest registration before it; and
\* every slot, an earlier registration's included, holds the value of the
\* last foreign call at its own index that the driver accepted.
C12_LastRegistrationWins ==
    /\ \A n \in Names : Registered(n) =>
          /\ n \in DOMAIN named_args
          /\ named_args[n] = RegIdx(n)
          /\ \A i \in RegPositions(n), j \in RegPositions(n) :
                i < j => set_calls[i].idx < set_calls[j].idx
    /\ \A i \in DOMAIN set_calls : set_calls[i].op \in SetOps =>
          /\ \E j \in RegPositions(set_calls[i].name) : j < i
          /\ set_calls[i].idx = ResolvedAt(set_calls[i].name, i)
    /\ \A s \in DOMAIN drv_args : drv_args[s] = LastAccepted(s)

C12_Witness ==
    /\ Len(set_calls) = 3
    /\ set_calls[1] = SetCall("arg_scl_named", "x", 0, Scalar(5), 0)
    /\ set_calls[2] = SetCall("arg_buf_named", "x", 1, MemNull, 0)
    /\ set_calls[3] = SetCall("set_arg_buf_named", "x", 1, Mem(1), 0)
    /\ named_args["x"] = 1
    /\ drv_args[0] = Scalar(5) /\ drv_args[1] = Mem(1)

\* C20: every index in the name index is below the argument counter and
\* names a slot the driver has been given a value for; every
\* set_arg_*_named call that reached the driver was issued at an index an
\* earlier, successful argument-adding call had bound.
C20_NamedIndexAllocated ==
    /\ \A n \in DOMAIN named_args :
          /\ named_args[n] < arg_index
          /\ named_args[n] \in DOMAIN drv_args
    /\ \A i \in DOMAIN set_calls : set_calls[i].op \in SetOps =>
          \E j \in 1..(i - 1) : /\ IsOkAdd(set_calls[j])
                                 /\ set_calls[j].idx = set_calls[i].idx

C20_Witness ==
    /\ arg_index = 2
    /\ named_args = ("y" :> 1)
    /\ Len(set_calls) = 3
    /\ set_calls[3] = SetCall("set_arg_scl_named", "y", 1, Scalar(7), -5)

\* C13: arg_count() returns the number of arguments added so far: after n
\* successful argument-adding calls it returns n.
C13_ArgCountIsNumberAdded ==
    call.op = "arg_count" => ret.idx = Len(OkAdds)

\* The foreign set-argument calls issued at slot s.
CallsAt(s) == {i \in DOMAIN set_calls : set_calls[i].idx = s}
\* The set_arg_*_named calls in the log whose name resolved to slot s.
SetsResolvedTo(s) ==
    {i \in DOMAIN set_calls : /\ set_calls[i].op \in SetOps
                              /\ \E j \in RegPositions(set_calls[i].name) : j < i
                              /\ ResolvedAt(set_calls[i].name, i) = s}
C18_SlotCounts ==
    /\ \A i \in DOMAIN set_calls : set_calls[i].op \in AddOps \cup SetOps
    /\ \A s \in 0..(arg_index - 1) :
          /\ Cardinality({i \in CallsAt(s) : IsAdd(set_calls[i])}) = 1
          /\ Cardinality(CallsAt(s)) = 1 + Cardinality(SetsResolvedTo(s))
    /\ \A i \in DOMAIN set_calls : set_calls[i].idx >= arg_index =>
          /\ i = Len(set_calls)
          /\ IsAdd(set_calls[i]) /\ set_calls[i].status # 0
          /\ pc = "panicked"
C18_Step ==
    /\ call'.op \in AddOps =>
          /\ Len(set_calls') = Len(set_calls) + 1
          /\ set_calls' = Append(set_calls, Last(set_calls'))
          /\ Last(set_calls').idx = arg_index
    /\ (call'.op \in SetOps /\ call'.name \in DOMAIN named_args) =>
          /\ Len(set_calls') = Len(set_calls) + 1
          /\ set_calls' = Append(set_calls, Last(set_calls'))
          /\ Last(set_calls').idx = named_args[call'.name]
    /\ (call'.op \in SetOps /\ call'.name \notin DOMAIN named_args) =>
          set_calls' = set_calls
    /\ call'.op \notin AddOps \cup SetOps => set_calls' = set_calls

\* C18: the foreign set-argument calls issued at an allocated slot are one
\* from the call that allocated it plus one for each set_arg_*_named call
\* whose name resolved to it: an adding call issues exactly one call, at
\* the counter; a set with a registered name exactly one, at the index the
\* name resolves to; a set with an unregistered name, gwo, lws, enqueue,
\* arg_count and new issue none.
C18_SetCallsAccounted == []C18_SlotCounts /\ [][C18_Step]_vars

C18_Witness ==
    /\ Len(set_calls) = 3
    /\ set_calls[1].op = "arg_scl_named" /\ set_calls[1].idx = 0
    /\ set_calls[2].op = "arg_buf" /\ set_calls[2].idx = 1
    /\ set_calls[3].op = "set_arg_scl_named" /\ set_calls[3].idx = 0
    /\ Cardinality(CallsAt(0)) = 2 /\ Cardinality(CallsAt(1)) = 1
    /\ gwo = Two(4, 2) /\ lws = Two(4, 2)
    /\ Len(enq_calls) = 1
    /\ call.op = "arg_count"

NoForeignCalls == set_calls = <<>> /\ enq_calls = <<>> /\ drv_args = <<>>

\* C14: Kernel::new either fails with an error wrapping the foreign status,
\* and then there is no handle and no argument or enqueue call is ever
\* issued, or succeeds with a handle whose counter is 0, whose name index is
\* empty, whose gwo and lws are Unspecified, whose gws is the one given and
\* whose queue is the one given.
C14_ConstructionOutcome ==
    /\ call.op = "new" => pc \in {"failed", "live"}
    /\ pc = "failed" =>
          /\ call.op = "new"
          /\ ret.res = "Err" /\ ret.err.kind = "Api"
          /\ ret.err.status \in ForeignStatus \ {0}
          /\ NoForeignCalls
    /\ (call.op = "new" /\ pc = "live") =>
          /\ ret = Ok
          /\ arg_index = 0 /\ arg_count = 0
          /\ named_args = <<>>
          /\ gwo = Unspecified /\ lws = Unspecified
          /\ gws = call.dims
          /\ command_queue = unwrap(call.val)
          /\ NoForeignCalls

C14_Witness ==
    /\ call.op = "new" /\ call.val = Some(2) /\ call.dims = Two(4, 2)
    /\ pc = "live" /\ ret = Ok
    /\ command_queue = 2 /\ gws = Two(4, 2)

\* C19: attaching Unspecified as gwo or lws is accepted whatever the
\* dimensionality of the global size, and leaves that field Unspecified.
C19_UnspecifiedAlwaysAccepted ==
    (call.op \in {"gwo", "lws"} /\ call.dims = Unspecified) =>
        /\ ret = Ok /\ pc = "live"
        /\ call.op = "gwo" => gwo = Unspecified
        /\ call.op = "lws" => lws = Unspecified

\* arg_scl_named(name, None) has just succeeded: zero is what the driver
\* was given for the new slot.
NoneBindsZero ==
    (call.op = "arg_scl_named" /\ call.val = None /\ ret.res = "Ok") =>
        /\ Last(set_calls) = SetCall("arg_scl_named", call.name, ret.idx, Scalar(0), 0)
        /\ drv_args[ret.idx] = Scalar(0)
\* Where in the log a named scalar was registered with the zero placeholder.
ZeroRegs ==
    {p \in DOMAIN set_calls : /\ set_calls[p].op = "arg_scl_named"
                              /\ set_calls[p].status = 0
                              /\ set_calls[p].arg = Scalar(0)}

\* C15 as stated: the slot of arg_scl_named(name, None) holds zero on the
\* driver side until the first successful set_arg_scl_named for that name.
C15_ZeroUntilScalarSet ==
    /\ NoneBindsZero
    /\ \A p \in ZeroRegs :
          (~\E j \in DOMAIN set_calls : /\ j > p
                                        /\ set_calls[j].op = "set_arg_scl_named"
                                        /\ set_calls[j].name = set_calls[p].name
                                        /\ set_calls[j].status = 0)
          => drv_args[set_calls[p].idx] = Scalar(0)

\* C15, amended: the slot of arg_scl_named(name, None) holds zero on the
\* driver side until the first successful set_arg_scl_named or
\* set_arg_buf_named at that slot; a failed set and an enqueue in between
\* leave the zero in place.
C15_ZeroUntilSet ==
    /\ NoneBindsZero
    /\ \A p \in ZeroRegs :
          (~\E j \in DOMAIN set_calls : /\ j > p
                                        /\ set_calls[j].op \in SetOps
                                        /\ set_calls[j].idx = set_calls[p].idx
                                        /\ set_calls[j].status = 0)
          => drv_args[set_calls[p].idx] = Scalar(0)

C15_Witness ==
    /\ Len(set_calls) = 2
    /\ set_calls[1] = SetCall("arg_scl_named", "x", 0, Scalar(0), 0)
    /\ set_calls[2] = SetCall("set_arg_scl_named", "x", 0, Scalar(7), -5)
    /\ call.op = "enqueue" /\ ret = Ok /\ Len(enq_calls) = 1
    /\ drv_args[0] = Scalar(0)

\* C16: dim_count is 0 exactly for Unspecified and 1, 2, 3 for One, Two,
\* Three; to_len and to_size fail, with the dimensions-unspecified error,
\* exactly for Unspecified, and succeed for every other value, a value with
\* a zero component included.
C16_DimCountAndFailure ==
    /\ call.op = "dim_count" =>
          /\ ret.res = "Ok"
          /\ ret.val = 0 <=> call.dims = Unspecified
          /\ call.dims.tag = "One" => ret.val = 1
          /\ call.dims.tag = "Two" => ret.val = 2
          /\ call.dims.tag = "Three" => ret.val = 3
    /\ call.op \in {"to_len", "to_size"} =>
          /\ ret.res \in {"Ok", "Err"}
          /\ ret.res = "Err" <=> call.dims = Unspecified
          /\ ret.res = "Err" => ret.err = DimensionsUnspecified

C16_Witness ==
    /\ call.op = "to_size" /\ call.dims = Three(0, 20, 2)
    /\ ret.res = "Ok" /\ ret.val = <<0, 20, 2>>

RECURSIVE Product(_)
Product(q) == IF q = <<>> THEN 1 ELSE Head(q) * Product(Tail(q))

\* C17: for a populated d, to_len is the product of its components
\* ((20,20,20) gives 8000), to_size hands back the components d was built
\* from ((20,20,20) gives [20,20,20]), and the product of to_size's entries
\* is to_len.
C17_LenIsProduct ==
    /\ (call.op = "to_len" /\ call.dims # Unspecified) =>
          /\ ret.val = Product(call.dims.v)
          /\ call.dims = Three(20, 20, 20) => ret.val = 8000
    /\ (call.op = "to_size" /\ call.dims # Unspecified) =>
          /\ Len(ret.val) = 3
          /\ \A i \in DOMAIN call.dims.v : ret.val[i] = call.dims.v[i]
          /\ call.dims = Three(20, 20, 20) => ret.val = <<20, 20, 20>>
          /\ Product(ret.val) = to_len(call.dims).val

C17_Witness ==
    /\ call.op = "to_len" /\ call.dims = Three(20, 20, 20)
    /\ ret.res = "Ok" /\ ret.val = 8000

C21_FrameStep ==
    /\ call'.op \in SetOps =>
          UNCHANGED <<arg_index, named_args, arg_count, command_queue, gwo, gws, lws>>
    /\ call'.op = "gwo" =>
          /\ UNCHANGED <<arg_index, named_args, arg_count, command_queue, gws, lws>>
          /\ UNCHANGED <<set_calls, drv_args, enq_calls>>
          /\ gwo' \in {gwo, call'.dims}
    /\ call'.op = "lws" =>
          /\ UNCHANGED <<arg_index, named_args, arg_count, command_queue, gwo, gws>>
          /\ UNCHANGED <<set_calls, drv_args, enq_calls>>
          /\ lws' \in {lws, call'.dims}
    /\ call'.op # "new" => UNCHANGED <<gws, command_queue>>

\* C21: set_arg_scl_named and set_arg_buf_named, succeeding or failing,
\* leave the argument counter, the name index and gwo, gws, lws as they
\* were; the gwo setter changes nothing but gwo and the lws setter nothing
\* but lws, and neither issues a foreign call; after construction gws and
\* the queue stay the ones Kernel::new was given.
C21_Frames ==
    /\ [](Constructed => gws = ctor.gws /\ command_queue = ctor.queue)
    /\ [][C21_FrameStep]_vars

C21_Witness ==
    /\ call.op = "set_arg_buf_named" /\ call.name = "y"
    /\ ret = Err(ApiErr(-5))
    /\ arg_index = 2 /\ named_args = ("y" :> 1)
    /\ gwo = Unspecified /\ lws = Two(4, 2)
    /\ gws = Two(4, 2) /\ command_queue = 1
    /\ Len(enq_calls) = 1
====
